---------------------------- MODULE Spec2Model ----------------------------
(***************************************************************************)
(* Model of src/main.py: the MedicalConditionScorer reference-table        *)
(* loader, the fuzzy condition matcher, the composite score, and the       *)
(* /score and /health handlers that gate on the loaded table.              *)
(*                                                                         *)
(* Text is a sequence of one-character strings.  Risk-weights are kept in  *)
(* hundredths (0.40 is 40), similarities as fractions <<num, den>>, and    *)
(* scores in tenths (55.0 is 550).                                         *)
(***************************************************************************)
EXTENDS Integers, Sequences, FiniteSets, TLC

VARIABLES
    file,        \* the CSV resource at csv_path: [status, lines]
    pc,          \* "boot" | "loading" | "serving": position of the module-level code
    line,        \* line_num of the next line _load_conditions reads
    scorer,      \* the global `scorer`: "None" or "Scorer"
    conditions,  \* self.conditions, a dict in insertion order: Seq of [code, description, raf_score]
    clients      \* per connection: the request in flight and its response

vars == <<file, pc, line, scorer, conditions, clients>>

-----------------------------------------------------------------------------
(* Bounds of the model *)

\* connections that may have a request in flight at the same time
MaxClients == 2
\* longest list of condition names a /score request carries
MaxNames == 2

-----------------------------------------------------------------------------
(* Characters and the str methods the code uses *)

DQ == "\""
NL == "\n"

Whitespace == {" ", "\t", NL}

Digits == <<"0", "1", "2", "3", "4", "5", "6", "7", "8", "9">>

UpperCase == <<"A", "B", "C", "D", "E", "F", "G", "H", "I", "J", "K", "L", "M",
               "N", "O", "P", "Q", "R", "S", "T", "U", "V", "W", "X", "Y", "Z">>

LowerCase == <<"a", "b", "c", "d", "e", "f", "g", "h", "i", "j", "k", "l", "m",
               "n", "o", "p", "q", "r", "s", "t", "u", "v", "w", "x", "y", "z">>

IndexIn(c, alphabet) ==
    IF \E i \in 1..Len(alphabet) : alphabet[i] = c
    THEN CHOOSE i \in 1..Len(alphabet) : alphabet[i] = c
    ELSE 0

LowerOf == [c \in {UpperCase[i] : i \in 1..Len(UpperCase)} |->
               LowerCase[IndexIn(c, UpperCase)]]

\* str.lower(), on the characters of the model
lower(s) ==
    [i \in 1..Len(s) |-> IF s[i] \in DOMAIN LowerOf THEN LowerOf[s[i]] ELSE s[i]]

RECURSIVE lstrip(_)
lstrip(s) ==
    IF s # <<>> /\ Head(s) \in Whitespace THEN lstrip(Tail(s)) ELSE s

RECURSIVE rstrip(_)
rstrip(s) ==
    IF s # <<>> /\ s[Len(s)] \in Whitespace THEN rstrip(SubSeq(s, 1, Len(s) - 1)) ELSE s

\* str.strip()
strip(s) == rstrip(lstrip(s))

\* `x in y` on strings
contains(y, x) ==
    \E i \in 0..(Len(y) - Len(x)) : SubSeq(y, i + 1, i + Len(x)) = x

\* str.replace('"', '')
RECURSIVE replace_quotes(_)
replace_quotes(s) ==
    IF s = <<>> THEN <<>>
    ELSE IF Head(s) = DQ THEN replace_quotes(Tail(s))
    ELSE <<Head(s)>> \o replace_quotes(Tail(s))

\* str.split(): the maximal runs of non-whitespace characters
RECURSIVE split_from(_, _, _)
split_from(s, i, word) ==
    IF i > Len(s) THEN (IF word = <<>> THEN <<>> ELSE <<word>>)
    ELSE IF s[i] \in Whitespace
         THEN (IF word = <<>> THEN <<>> ELSE <<word>>) \o split_from(s, i + 1, <<>>)
         ELSE split_from(s, i + 1, Append(word, s[i]))

split(s) == split_from(s, 1, <<>>)

\* int(str): surrounding whitespace, an optional sign, then digits in which
\* single underscores may separate digits; anything else is a ValueError.
RECURSIVE digits_value(_, _, _, _)
digits_value(s, i, acc, prev_digit) ==
    IF i > Len(s) THEN [ok |-> prev_digit, val |-> acc]
    ELSE IF IndexIn(s[i], Digits) > 0
         THEN digits_value(s, i + 1, acc * 10 + (IndexIn(s[i], Digits) - 1), TRUE)
    ELSE IF s[i] = "_" /\ prev_digit
         THEN digits_value(s, i + 1, acc, FALSE)
    ELSE [ok |-> FALSE, val |-> 0]

int(s) ==
    LET t == strip(s)
        signed == t # <<>> /\ Head(t) \in {"+", "-"}
        body == IF signed THEN Tail(t) ELSE t
        d == digits_value(body, 1, 0, FALSE)
    IN  IF ~d.ok THEN [ok |-> FALSE, val |-> 0]
        ELSE [ok |-> TRUE, val |-> IF signed /\ Head(t) = "-" THEN 0 - d.val ELSE d.val]

-----------------------------------------------------------------------------
(* MedicalConditionScorer: the loader *)

\* _parse_csv_line: a quote toggles in_quotes and is dropped, a comma outside
\* quotes ends the field, every field is stripped.
RECURSIVE parse_csv_from(_, _, _, _)
parse_csv_from(s, i, current, in_quotes) ==
    IF i > Len(s) THEN <<strip(current)>>
    ELSE IF s[i] = DQ THEN parse_csv_from(s, i + 1, current, ~in_quotes)
    ELSE IF s[i] = "," /\ ~in_quotes
         THEN <<strip(current)>> \o parse_csv_from(s, i + 1, <<>>, in_quotes)
    ELSE parse_csv_from(s, i + 1, Append(current, s[i]), in_quotes)

_parse_csv_line(s) == parse_csv_from(s, 1, <<>>, FALSE)

\* raf_mapping with one entry lost (code 454)
raf_mapping_short ==
    (1 :> 80) @@ (2 :> 65) @@ (6 :> 45) @@ (8 :> 25) @@ (9 :> 35) @@
    (10 :> 40) @@ (11 :> 30) @@ (12 :> 28) @@ (17 :> 60) @@ (18 :> 55) @@
    (19 :> 38) @@ (20 :> 42) @@ (21 :> 32) @@ (22 :> 30) @@ (23 :> 70) @@
    (29 :> 45) @@ (33 :> 35) @@ (36 :> 40) @@ (37 :> 38) @@ (38 :> 35) @@
    (39 :> 32) @@ (43 :> 35) @@ (46 :> 48) @@ (47 :> 42) @@ (48 :> 38) @@
    (52 :> 45) @@ (54 :> 38) @@ (55 :> 35) @@ (56 :> 38) @@ (65 :> 40) @@
    (72 :> 38) @@ (75 :> 35) @@ (78 :> 32) @@ (85 :> 42) @@ (92 :> 32) @@
    (93 :> 30) @@ (95 :> 38) @@ (96 :> 35) @@ (98 :> 35) @@ (99 :> 38) @@
    (100 :> 32) @@ (106 :> 35) @@ (108 :> 38) @@ (109 :> 42) @@ (111 :> 35) @@
    (112 :> 38) @@ (114 :> 45) @@ (115 :> 40) @@ (127 :> 38) @@ (141 :> 35) @@
    (155 :> 35) @@ (158 :> 32) @@ (168 :> 28) @@ (182 :> 35) @@ (186 :> 38) @@
    (202 :> 45) @@ (227 :> 40) @@ (263 :> 35) @@ (280 :> 38) @@ (282 :> 42) @@
    (283 :> 35) @@ (387 :> 28) @@ (395 :> 38)

\* the fixed category-code -> risk-weight table of _get_raf_score, in hundredths
raf_mapping ==
    (1 :> 80) @@ (2 :> 65) @@ (6 :> 45) @@ (8 :> 25) @@ (9 :> 35) @@
    (10 :> 40) @@ (11 :> 30) @@ (12 :> 28) @@ (17 :> 60) @@ (18 :> 55) @@
    (19 :> 38) @@ (20 :> 42) @@ (21 :> 32) @@ (22 :> 30) @@ (23 :> 70) @@
    (29 :> 45) @@ (33 :> 35) @@ (36 :> 40) @@ (37 :> 38) @@ (38 :> 35) @@
    (39 :> 32) @@ (43 :> 35) @@ (46 :> 48) @@ (47 :> 42) @@ (48 :> 38) @@
    (52 :> 45) @@ (54 :> 38) @@ (55 :> 35) @@ (56 :> 38) @@ (65 :> 40) @@
    (72 :> 38) @@ (75 :> 35) @@ (78 :> 32) @@ (85 :> 42) @@ (92 :> 32) @@
    (93 :> 30) @@ (95 :> 38) @@ (96 :> 35) @@ (98 :> 35) @@ (99 :> 38) @@
    (100 :> 32) @@ (106 :> 35) @@ (108 :> 38) @@ (109 :> 42) @@ (111 :> 35) @@
    (112 :> 38) @@ (114 :> 45) @@ (115 :> 40) @@ (127 :> 38) @@ (141 :> 35) @@
    (155 :> 35) @@ (158 :> 32) @@ (168 :> 28) @@ (182 :> 35) @@ (186 :> 38) @@
    (202 :> 45) @@ (227 :> 40) @@ (263 :> 35) @@ (280 :> 38) @@ (282 :> 42) @@
    (283 :> 35) @@ (387 :> 28) @@ (395 :> 38) @@ (454 :> 45)

\* the weight returned for an empty, non-integer or unmapped category: 0.1
DefaultRaf == 10

_get_raf_score(hcc_value) ==
    IF hcc_value = <<>> THEN DefaultRaf
    ELSE IF ~int(hcc_value).ok THEN DefaultRaf
    ELSE IF int(hcc_value).val \in DOMAIN raf_mapping
         THEN raf_mapping[int(hcc_value).val]
         ELSE DefaultRaf

\* self.conditions[code] = value: a new key goes last, an existing key keeps
\* its place and takes the new value
dict_set(d, code, value) ==
    IF \E i \in 1..Len(d) : d[i].code = code
    THEN [i \in 1..Len(d) |-> IF d[i].code = code THEN value ELSE d[i]]
    ELSE Append(d, value)

\* the row test of _load_conditions: more than 7 fields, fields 0 and 1 not empty
MinFields == 7

\* the row test taking 7 fields for enough (>= instead of >)
row_accepted_seven(parts) ==
    Len(parts) >= MinFields /\ parts[1] # <<>> /\ parts[2] # <<>>

row_accepted(parts) ==
    Len(parts) > MinFields /\ parts[1] # <<>> /\ parts[2] # <<>>

\* the body of the loop of _load_conditions for one line after the header
load_row(d, text) ==
    LET parts == _parse_csv_line(strip(text))
    IN  IF row_accepted(parts)
        THEN LET code == strip(replace_quotes(parts[1]))
                 desc == strip(replace_quotes(parts[2]))
                 hcc_v28 == IF Len(parts) > 6 THEN strip(parts[7]) ELSE <<>>
             IN  dict_set(d, code, [code |-> code, description |-> desc,
                                    raf_score |-> _get_raf_score(hcc_v28)])
        ELSE d

-----------------------------------------------------------------------------
(* MedicalConditionScorer: the matcher *)

\* Fractions <<num, den>> with den > 0 stand for the floats the code compares
Geq(x, y) == x[1] * y[2] >= y[1] * x[2]
Gt(x, y) == x[1] * y[2] > y[1] * x[2]

\* difflib.SequenceMatcher(None, a, b): positions are 1-based, hi exclusive.
\* Length of the common run of a from i and b from j.
RECURSIVE run_length(_, _, _, _, _, _)
run_length(a, b, i, j, ahi, bhi) ==
    IF i < ahi /\ j < bhi /\ a[i] = b[j]
    THEN 1 + run_length(a, b, i + 1, j + 1, ahi, bhi)
    ELSE 0

SetMax(S) == CHOOSE x \in S : \A y \in S : y <= x
SetMin(S) == CHOOSE x \in S : \A y \in S : x <= y

\* find_longest_match: the longest block, the earliest in a among the longest,
\* the earliest in b among those (no junk: the words are far below 200 chars)
find_longest_match(a, b, alo, ahi, blo, bhi) ==
    LET starts == (alo..(ahi - 1)) \X (blo..(bhi - 1))
        sized == {<<p[1], p[2], run_length(a, b, p[1], p[2], ahi, bhi)>> : p \in starts}
        best == SetMax({m[3] : m \in sized} \cup {0})
    IN  IF best = 0 THEN <<alo, blo, 0>>
        ELSE LET i == SetMin({m[1] : m \in {q \in sized : q[3] = best}})
                 j == SetMin({m[2] : m \in {q \in sized : q[3] = best /\ q[1] = i}})
             IN  <<i, j, best>>

\* get_matching_blocks: the longest block, then the same to its left and right;
\* the value is the total size of the blocks
RECURSIVE matches(_, _, _, _, _, _)
matches(a, b, alo, ahi, blo, bhi) ==
    IF alo >= ahi \/ blo >= bhi THEN 0
    ELSE LET m == find_longest_match(a, b, alo, ahi, blo, bhi)
         IN  IF m[3] = 0 THEN 0
             ELSE m[3] + matches(a, b, alo, m[1], blo, m[2])
                       + matches(a, b, m[1] + m[3], ahi, m[2] + m[3], bhi)

\* SequenceMatcher.ratio(): 2.0 * matches / (len(a) + len(b)), 1.0 for two empty strings
ratio(a, b) ==
    IF Len(a) + Len(b) = 0 THEN <<1, 1>>
    ELSE <<2 * matches(a, b, 1, Len(a) + 1, 1, Len(b) + 1), Len(a) + Len(b)>>

\* the two loops of _fuzzy_match_score: the first strictly larger ratio wins
RECURSIVE max_ratio(_, _, _, _, _)
max_ratio(search_words, desc_words, i, j, max_score) ==
    IF i > Len(search_words) THEN max_score
    ELSE IF j > Len(desc_words) THEN max_ratio(search_words, desc_words, i + 1, 1, max_score)
    ELSE LET r == ratio(search_words[i], desc_words[j])
         IN  max_ratio(search_words, desc_words, i, j + 1,
                       IF Gt(r, max_score) THEN r ELSE max_score)

_fuzzy_match_score(search_term, description) ==
    LET search_lower == lower(search_term)
        desc_lower == lower(description)
    IN  IF contains(desc_lower, search_lower) THEN <<1, 1>>
        ELSE max_ratio(split(search_lower), split(desc_lower), 1, 1, <<0, 1>>)

\* the acceptance threshold 0.75 = 3/4
ThresholdNum == 3
ThresholdDen == 4
\* at most this many matches are kept per name
TopMatches == 5

accepted(match_score) == Geq(match_score, <<ThresholdNum, ThresholdDen>>)

\* scored_matches of one name: the accepted entries in dict order
RECURSIVE scored_matches_from(_, _, _)
scored_matches_from(d, condition_name, i) ==
    IF i > Len(d) THEN <<>>
    ELSE LET match_score == _fuzzy_match_score(condition_name, d[i].description)
         IN  (IF accepted(match_score)
              THEN <<[code |-> d[i].code, raf_score |-> d[i].raf_score,
                      match_score |-> match_score]>>
              ELSE <<>>) \o scored_matches_from(d, condition_name, i + 1)

\* list.sort(key=match_score, reverse=True): stable, equal keys keep their order
RECURSIVE insert_sorted(_, _)
insert_sorted(sorted, m) ==
    IF sorted = <<>> THEN <<m>>
    ELSE IF Geq(Head(sorted).match_score, m.match_score)
         THEN <<Head(sorted)>> \o insert_sorted(Tail(sorted), m)
         ELSE <<m>> \o sorted

RECURSIVE sort_matches_from(_, _, _)
sort_matches_from(ms, i, sorted) ==
    IF i > Len(ms) THEN sorted
    ELSE sort_matches_from(ms, i + 1, insert_sorted(sorted, ms[i]))

sort_matches(ms) == sort_matches_from(ms, 1, <<>>)

\* the slice left out: every accepted match is kept
top_slice_all(ms) == ms

\* scored_matches[:5]
top_slice(ms) == SubSeq(ms, 1, IF Len(ms) < TopMatches THEN Len(ms) ELSE TopMatches)

\* what one name appends to matched_conditions: the raf_score of its kept matches
matches_of_name(d, condition_name) ==
    LET kept == top_slice(sort_matches(scored_matches_from(d, condition_name, 1)))
    IN  [k \in 1..Len(kept) |-> kept[k].raf_score]

\* find_condition_by_name: the raf_score list over all names, in order
RECURSIVE find_from(_, _, _)
find_from(d, condition_names, n) ==
    IF n > Len(condition_names) THEN <<>>
    ELSE matches_of_name(d, condition_names[n]) \o find_from(d, condition_names, n + 1)

find_condition_by_name(d, condition_names) == find_from(d, condition_names, 1)

-----------------------------------------------------------------------------
(* MedicalConditionScorer: the score *)

\* the chain with <= for <: each band edge falls into the band below
age_band_inclusive(age) ==
    IF age <= 30 THEN 5
    ELSE IF age <= 45 THEN 10
    ELSE IF age <= 60 THEN 15
    ELSE IF age <= 75 THEN 18
    ELSE 20

\* the chain with 25 for the last band
age_band_high(age) ==
    IF age < 30 THEN 5
    ELSE IF age < 45 THEN 10
    ELSE IF age < 60 THEN 15
    ELSE IF age < 75 THEN 18
    ELSE 25

\* the if/elif chain of calculate_medical_score
age_band(age) ==
    IF age < 30 THEN 5
    ELSE IF age < 45 THEN 10
    ELSE IF age < 60 THEN 15
    ELSE IF age < 75 THEN 18
    ELSE 20

\* the cap of the condition score, in points
ConditionCap == 80

\* round(x, 1) of x given in hundredths of a point, result in tenths;
\* a tie goes to the even tenth
round1(hundredths) ==
    LET q == hundredths \div 10
        r == hundredths % 10
    IN  IF r < 5 THEN q
        ELSE IF r > 5 THEN q + 1
        ELSE IF q % 2 = 0 THEN q ELSE q + 1

RECURSIVE SeqSum(_)
SeqSum(q) == IF q = <<>> THEN 0 ELSE Head(q) + SeqSum(Tail(q))

\* the weights added up in place of the highest one
condition_score_sum(raf_scores) ==
    IF SeqSum(raf_scores) < ConditionCap THEN SeqSum(raf_scores) ELSE ConditionCap

\* the weight of the last match in place of the highest one
condition_score_last(raf_scores) ==
    IF raf_scores[Len(raf_scores)] < ConditionCap
    THEN raf_scores[Len(raf_scores)] ELSE ConditionCap

\* highest_raf * 100 is the weight's hundredths read as points
condition_score(raf_scores) ==
    LET highest_raf == SetMax({raf_scores[i] : i \in 1..Len(raf_scores)})
    IN  IF highest_raf < ConditionCap THEN highest_raf ELSE ConditionCap

\* the result of calculate_medical_score from its locals age_score and
\* conditions, in tenths of a point
total_score(age_score, found) ==
    IF found = <<>> THEN round1(age_score * 100)
    ELSE round1((age_score + condition_score(found)) * 100)

calculate_medical_score(d, condition_names, age) ==
    total_score(age_band(age), find_condition_by_name(d, condition_names))

-----------------------------------------------------------------------------
(* The reference files and the requests the model runs on *)

\* Code,Description,,,,,HCC,\n
Header ==
    <<"C", "o", "d", "e", ",", "D", "e", "s", "c", "r", "i", "p", "t", "i",
      "o", "n", ",", ",", ",", ",", ",", "H", "C", "C", ",", NL>>

\* E11,"Diabetes Mellitus",,,,,36,\n
RowE11 ==
    <<"E", "1", "1", ",", DQ, "D", "i", "a", "b", "e", "t", "e", "s", " ",
      "M", "e", "l", "l", "i", "t", "u", "s", DQ, ",", ",", ",", ",", ",",
      "3", "6", ",", NL>>

\* "A01","Some Disease","","","","","1",""\n
RowA01 ==
    <<DQ, "A", "0", "1", DQ, ",", DQ, "S", "o", "m", "e", " ", "D", "i", "s",
      "e", "a", "s", "e", DQ, ",", DQ, DQ, ",", DQ, DQ, ",", DQ, DQ, ",", DQ,
      DQ, ",", DQ, "1", DQ, ",", DQ, DQ, NL>>

\* A02,Farmer lung,,,,,"",\n
RowNoHcc ==
    <<"A", "0", "2", ",", "F", "a", "r", "m", "e", "r", " ", "l", "u", "n",
      "g", ",", ",", ",", ",", ",", DQ, DQ, ",", NL>>

\* A03,Short,,,,1\n
RowSix ==
    <<"A", "0", "3", ",", "S", "h", "o", "r", "t", ",", ",", ",", ",", "1",
      NL>>

\* A04,Seven,,,,,1\n
RowSeven ==
    <<"A", "0", "4", ",", "S", "e", "v", "e", "n", ",", ",", ",", ",", ",",
      "1", NL>>

\* ,NoCode,,,,,1,\n
RowNoCode ==
    <<",", "N", "o", "C", "o", "d", "e", ",", ",", ",", ",", ",", "1", ",",
      NL>>

\* A05," ",,,,,1,\n
RowNoDesc ==
    <<"A", "0", "5", ",", DQ, " ", DQ, ",", ",", ",", ",", ",", "1", ",", NL>>

\* A06,"Cyst, left",,,,,x1,\n
RowQuoted ==
    <<"A", "0", "6", ",", DQ, "C", "y", "s", "t", ",", " ", "l", "e", "f",
      "t", DQ, ",", ",", ",", ",", ",", "x", "1", ",", NL>>

\* A07,Alarm,,,,,3,\n
RowUnmapped ==
    <<"A", "0", "7", ",", "A", "l", "a", "r", "m", ",", ",", ",", ",", ",",
      "3", ",", NL>>

\* A01,Acne,,,,, 2 ,
RowAgain ==
    <<"A", "0", "1", ",", "A", "c", "n", "e", ",", ",", ",", ",", ",", " ",
      "2", " ", ",">>

\* D1,Diabetis insipidus,,,,,1,\n
RowD1 ==
    <<"D", "1", ",", "D", "i", "a", "b", "e", "t", "i", "s", " ", "i", "n",
      "s", "i", "p", "i", "d", "u", "s", ",", ",", ",", ",", ",", "1", ",",
      NL>>

\* D2,Type 1 Diabetes,,,,,36,\n
RowD2 ==
    <<"D", "2", ",", "T", "y", "p", "e", " ", "1", " ", "D", "i", "a", "b",
      "e", "t", "e", "s", ",", ",", ",", ",", ",", "3", "6", ",", NL>>

\* D3,Type 2 Diabetes,,,,,37,\n
RowD3 ==
    <<"D", "3", ",", "T", "y", "p", "e", " ", "2", " ", "D", "i", "a", "b",
      "e", "t", "e", "s", ",", ",", ",", ",", ",", "3", "7", ",", NL>>

\* D4,Diabetes Mellitus,,,,,38,\n
RowD4 ==
    <<"D", "4", ",", "D", "i", "a", "b", "e", "t", "e", "s", " ", "M", "e",
      "l", "l", "i", "t", "u", "s", ",", ",", ",", ",", ",", "3", "8", ",",
      NL>>

\* D5,Other diabetes,,,,,,\n
RowD5 ==
    <<"D", "5", ",", "O", "t", "h", "e", "r", " ", "d", "i", "a", "b", "e",
      "t", "e", "s", ",", ",", ",", ",", ",", ",", NL>>

\* D6,Drug DIABETES,,,,,12,\n
RowD6 ==
    <<"D", "6", ",", "D", "r", "u", "g", " ", "D", "I", "A", "B", "E", "T",
      "E", "S", ",", ",", ",", ",", ",", "1", "2", ",", NL>>

\* D7,Diabetes coma,,,,,2,\n
RowD7 ==
    <<"D", "7", ",", "D", "i", "a", "b", "e", "t", "e", "s", " ", "c", "o",
      "m", "a", ",", ",", ",", ",", ",", "2", ",", NL>>

\* D8,Broken leg,,,,,8,\n
RowD8 ==
    <<"D", "8", ",", "B", "r", "o", "k", "e", "n", " ", "l", "e", "g", ",",
      ",", ",", ",", ",", "8", ",", NL>>

NameDiabetes == <<"d", "i", "a", "b", "e", "t", "e", "s">>
NameDiabetis == <<"d", "i", "a", "b", "e", "t", "i", "s">>
NameBrokenArm == <<"b", "r", "o", "k", "e", "n", " ", "a", "r", "m">>

\* a file that exists and opens, one that does not exist (open raises
\* FileNotFoundError), one that exists but cannot be opened (open raises
\* PermissionError)
Readable(lines) == [status |-> "ok", lines |-> lines]
MissingFile == [status |-> "missing", lines |-> <<>>]
UnreadableFile == [status |-> "unreadable", lines |-> <<>>]

HeaderOnlyFile == Readable(<<Header>>)
SingleEntryFile == Readable(<<Header, RowE11>>)
MixedRowsFile ==
    Readable(<<Header, RowA01, RowNoHcc, RowSix, RowSeven, RowNoCode, RowNoDesc,
               RowQuoted, RowUnmapped, RowAgain>>)
DiabetesFile ==
    Readable(<<Header, RowD1, RowD2, RowD3, RowD4, RowD5, RowD6, RowD7, RowD8>>)

Files == {MissingFile, UnreadableFile, HeaderOnlyFile, SingleEntryFile,
          MixedRowsFile, DiabetesFile}

Names == {NameDiabetes, NameDiabetis, NameBrokenArm}

RECURSIVE SeqsUpTo(_, _)
SeqsUpTo(S, n) ==
    IF n = 0 THEN {<<>>}
    ELSE SeqsUpTo(S, n - 1) \cup
         {Append(q, x) : q \in {r \in SeqsUpTo(S, n - 1) : Len(r) = n - 1}, x \in S}

NameLists == SeqsUpTo(Names, MaxNames)

\* the ages around every band edge, a negative age, and the age of the
\* end-to-end example
Ages == {0 - 1, 0, 29, 30, 44, 45, 50, 59, 60, 74, 75, 76}

HealthRequest == [path |-> "/health"]

ScoreRequest(ns, a) == [path |-> "/score", conditions |-> ns, age |-> a]

\* ScoringInput: every list of names at every age
ScoringInputs == {ScoreRequest(x[1], x[2]) : x \in NameLists \X Ages}

\* every list of names at the age of the end-to-end example
PairAges == {50}
PairInputs == {ScoreRequest(x[1], x[2]) : x \in NameLists \X PairAges}

\* the requests of the concurrent clients
ServedRequests ==
    {HealthRequest,
     ScoreRequest(<<>>, 50),
     ScoreRequest(<<NameDiabetes>>, 50),
     ScoreRequest(<<NameDiabetis>>, 75),
     ScoreRequest(<<NameBrokenArm, NameDiabetes>>, 29)}

Clients == 1..MaxClients

Idle == [state |-> "idle"]

-----------------------------------------------------------------------------
(* The module-level construction of `scorer` *)

Init ==
    /\ file \in Files
    /\ pc = "boot"
    /\ line = 0
    /\ scorer = "None"
    /\ conditions = <<>>
    /\ clients = [c \in Clients |-> Idle]

\* __init__ without its `except FileNotFoundError`: the error leaves __init__
\* and the module-level `except:` binds scorer to None
ConstructMissing_uncaught ==
    /\ pc = "boot"
    /\ file.status = "missing"
    /\ conditions' = <<>>
    /\ scorer' = "None"
    /\ pc' = "serving"
    /\ UNCHANGED <<file, line, clients>>

\* __init__ on a missing file: open raises FileNotFoundError, __init__ swallows
\* it and the scorer is bound with the empty dict
ConstructMissing ==
    /\ pc = "boot"
    /\ file.status = "missing"
    /\ conditions' = <<>>
    /\ scorer' = "Scorer"
    /\ pc' = "serving"
    /\ UNCHANGED <<file, line, clients>>

\* __init__ on a file that cannot be opened: the error is no FileNotFoundError,
\* leaves __init__, and the module-level `except:` binds scorer to None
ConstructUnreadable ==
    /\ pc = "boot"
    /\ file.status = "unreadable"
    /\ conditions' = <<>>
    /\ scorer' = "None"
    /\ pc' = "serving"
    /\ UNCHANGED <<file, line, clients>>

\* __init__ on a readable file: the dict is empty and the loop starts at line 1
OpenFile ==
    /\ pc = "boot"
    /\ file.status = "ok"
    /\ conditions' = <<>>
    /\ line' = 1
    /\ pc' = "loading"
    /\ UNCHANGED <<file, scorer, clients>>

\* one iteration of the loop of _load_conditions: line 1 is the header
LoadLine ==
    /\ pc = "loading"
    /\ line <= Len(file.lines)
    /\ conditions' = IF line = 1 THEN conditions
                     ELSE load_row(conditions, file.lines[line])
    /\ line' = line + 1
    /\ UNCHANGED <<file, pc, scorer, clients>>

\* the loop ends, __init__ returns and `scorer` is bound
FinishLoad ==
    /\ pc = "loading"
    /\ line > Len(file.lines)
    /\ scorer' = "Scorer"
    /\ pc' = "serving"
    /\ UNCHANGED <<file, line, conditions, clients>>

-----------------------------------------------------------------------------
(* The request handlers *)

\* the guard without its test of the table: `not scorer`
unavailable_scorer_only(sc, d) == sc = "None"

\* `not scorer or not scorer.conditions`
unavailable(sc, d) == sc = "None" \/ d = <<>>

ServiceUnavailable == [status |-> 503, detail |-> "Service unavailable"]

\* a scoring call that pops the first entry of the dict it searched
conditions_after_score_popping(d, condition_names) ==
    IF condition_names = <<>> THEN d ELSE Tail(d)

\* self.conditions after a scoring call: the call only reads it
conditions_after_score(d, condition_names) == d

\* a client sends a request; the server accepts connections once uvicorn runs
Send(c, req) ==
    /\ pc = "serving"
    /\ clients[c].state = "idle"
    /\ clients' = [clients EXCEPT ![c] = [state |-> "pending", request |-> req]]
    /\ UNCHANGED <<file, pc, line, scorer, conditions>>

\* POST /score; `call` keeps the locals age_score and conditions of
\* calculate_medical_score beside the response
score_medical_needs(c) ==
    /\ pc = "serving"
    /\ clients[c].state = "pending"
    /\ clients[c].request.path = "/score"
    /\ LET req == clients[c].request
       IN  IF unavailable(scorer, conditions)
           THEN /\ clients' = [clients EXCEPT ![c] =
                       [state |-> "done", request |-> req,
                        response |-> ServiceUnavailable]]
                /\ UNCHANGED conditions
           ELSE /\ \E found \in {find_condition_by_name(conditions, req.conditions)} :
                    clients' = [clients EXCEPT ![c] =
                       [state |-> "done", request |-> req,
                        response |-> [status |-> 200,
                                      score |-> total_score(age_band(req.age), found)],
                        call |-> [age_score |-> age_band(req.age),
                                  matched |-> found]]]
                /\ conditions' = conditions_after_score(conditions, req.conditions)
    /\ UNCHANGED <<file, pc, line, scorer>>

\* GET /health
health(c) ==
    /\ pc = "serving"
    /\ clients[c].state = "pending"
    /\ clients[c].request.path = "/health"
    /\ clients' = [clients EXCEPT ![c] =
           [state |-> "done", request |-> clients[c].request,
            response |-> IF unavailable(scorer, conditions)
                         THEN ServiceUnavailable
                         ELSE [status |-> 200, health |-> "healthy",
                               conditions_loaded |-> Len(conditions)]]]
    /\ UNCHANGED <<file, pc, line, scorer, conditions>>

\* the client reads the response and may send again
Receive(c) ==
    /\ clients[c].state = "done"
    /\ clients' = [clients EXCEPT ![c] = Idle]
    /\ UNCHANGED <<file, pc, line, scorer, conditions>>

Startup ==
    \/ ConstructMissing
    \/ ConstructUnreadable
    \/ OpenFile
    \/ LoadLine
    \/ FinishLoad

\* the service under concurrent clients
Next ==
    \/ Startup
    \/ \E c \in Clients, req \in ServedRequests : Send(c, req)
    \/ \E c \in Clients : score_medical_needs(c)
    \/ \E c \in Clients : health(c)
    \/ \E c \in Clients : Receive(c)

Spec == Init /\ [][Next]_vars

\* one client, every scoring input
ScoringNext ==
    \/ Startup
    \/ \E req \in ScoringInputs : Send(1, req)
    \/ score_medical_needs(1)
    \/ Receive(1)

ScoringSpec == Init /\ [][ScoringNext]_vars

\* two clients, the scoring inputs of the PairAges
PairNext ==
    \/ Startup
    \/ \E c \in {1, 2}, req \in PairInputs : Send(c, req)
    \/ \E c \in {1, 2} : score_medical_needs(c)
    \/ \E c \in {1, 2} : Receive(c)

PairSpec == Init /\ [][PairNext]_vars

-----------------------------------------------------------------------------
(* Properties *)

\* client c holds the answer of a /score request that computed a score
Scored(c) ==
    /\ clients[c].state = "done"
    /\ clients[c].request.path = "/score"
    /\ clients[c].response.status = 200

Answered(c) == clients[c].state = "done"

Range(q) == {q[i] : i \in 1..Len(q)}

\* C1: calculate_medical_score returns the age-band score alone when no
\* risk-weight was collected (in particular for the empty list of names), and
\* otherwise the age-band score plus min(highest collected weight x 100, 80),
\* to one decimal; the single entry E11 "Diabetes Mellitus" 0.40 with
\* ["diabetes"] at age 50 gives 55.0.
C1_ScoreIsBandPlusCappedHighest ==
    \A c \in Clients : Scored(c) =>
        LET r == clients[c]
            weights == Range(r.call.matched)
        IN  /\ r.request.conditions = <<>> => r.call.matched = <<>>
            /\ weights = {} => r.response.score = 10 * r.call.age_score
            /\ weights # {} =>
                 \E h \in weights :
                    /\ \A w \in weights : w <= h
                    /\ r.response.score =
                         10 * r.call.age_score + 10 * (IF h <= 80 THEN h ELSE 80)
            /\ (file = SingleEntryFile /\ r.request.conditions = <<NameDiabetes>>
                  /\ r.request.age = 50) => r.response.score = 550

C1_Witness ==
    /\ Scored(1)
    /\ file = SingleEntryFile
    /\ clients[1].request = ScoreRequest(<<NameDiabetes>>, 50)
    /\ clients[1].call.matched = <<40>>
    /\ clients[1].response.score = 550

\* C2: the age-band score is 5 below 30 (negative ages included), 10 from 30
\* to 44, 15 from 45 to 59, 18 from 60 to 74 and 20 from 75 on.
C2_AgeBands ==
    \A c \in Clients : Scored(c) =>
        LET age == clients[c].request.age
            band == clients[c].call.age_score
        IN  /\ age < 30 => band = 5
            /\ (30 <= age /\ age < 45) => band = 10
            /\ (45 <= age /\ age < 60) => band = 15
            /\ (60 <= age /\ age < 75) => band = 18
            /\ age >= 75 => band = 20
            /\ clients[c].call.matched = <<>> => clients[c].response.score = 10 * band

C2_Witness ==
    /\ Scored(1)
    /\ clients[1].request.age < 0
    /\ clients[1].call.age_score = 5
    /\ clients[1].response.score = 50

\* C3: on every table the loader builds, every score returned lies in
\* [5.0, 100.0].
C3_ScoreInRange ==
    \A c \in Clients : Scored(c) =>
        /\ 50 <= clients[c].response.score
        /\ clients[c].response.score <= 1000

C3_Witness ==
    /\ Scored(1)
    /\ clients[1].request.age >= 75
    /\ 80 \in Range(clients[1].call.matched)
    /\ clients[1].response.score = 1000

\* C4: for a fixed table and age, one more condition name never lowers the
\* score.
C4_MoreNamesNeverLower ==
    \A c1 \in Clients, c2 \in Clients :
        (/\ Scored(c1) /\ Scored(c2)
         /\ clients[c1].request.age = clients[c2].request.age
         /\ \E extra \in Names :
                clients[c2].request.conditions =
                    Append(clients[c1].request.conditions, extra))
        => clients[c2].response.score >= clients[c1].response.score

C4_Witness ==
    /\ Scored(1) /\ Scored(2)
    /\ clients[1].request.age = clients[2].request.age
    /\ clients[1].request.conditions = <<NameDiabetis>>
    /\ clients[2].request.conditions = <<NameDiabetis, NameDiabetes>>
    /\ 80 \in Range(clients[1].call.matched)
    /\ clients[2].response.score >= clients[1].response.score

\* C5: while the scorer is absent or its table is empty, every /health and
\* every /score request is answered 503 and no score is computed; a score is
\* returned only when the table is not empty.
C5_UnavailableIs503 ==
    \A c \in Clients : Answered(c) =>
        /\ (scorer = "None" \/ Len(conditions) = 0) =>
              /\ clients[c].response.status = 503
              /\ "score" \notin DOMAIN clients[c].response
              /\ "call" \notin DOMAIN clients[c]
        /\ "score" \in DOMAIN clients[c].response =>
              (scorer = "Scorer" /\ Len(conditions) > 0)

C5_Witness ==
    /\ scorer = "Scorer"
    /\ conditions = <<>>
    /\ Answered(1) /\ clients[1].request.path = "/score"
    /\ clients[1].response.status = 503
    /\ Answered(2) /\ clients[2].request.path = "/health"
    /\ clients[2].response.status = 503

C7_Fields(i) == _parse_csv_line(strip(file.lines[i]))
C7_Clean(field) == strip(replace_quotes(field))
C7_Accepted(i) ==
    /\ Len(C7_Fields(i)) > 7
    /\ C7_Clean(C7_Fields(i)[1]) # <<>>
    /\ C7_Clean(C7_Fields(i)[2]) # <<>>
C7_Weight(i) ==
    LET n == int(C7_Fields(i)[7])
    IN  IF n.ok /\ n.val \in DOMAIN raf_mapping THEN raf_mapping[n.val] ELSE 10
\* the data rows read so far
C7_Read == IF pc = "boot" THEN {} ELSE 2..(line - 1)

\* C7: a data row adds an entry iff it has more than 7 fields and fields 0 and
\* 1 are not empty once quotes and surrounding whitespace are removed; a
\* rejected row is skipped and the rows after it are still loaded; the weight
\* of an accepted row is the fixed table's value for field 6 when that parses
\* as an integer of the table, and 0.1 otherwise.
C7_RowsAcceptedAndWeighted ==
    file.status = "ok" =>
        /\ \A i \in C7_Read : C7_Accepted(i) =>
              \E k \in 1..Len(conditions) :
                  conditions[k].code = C7_Clean(C7_Fields(i)[1])
        /\ \A k \in 1..Len(conditions) :
              \E i \in C7_Read :
                  /\ C7_Accepted(i)
                  /\ conditions[k].code = C7_Clean(C7_Fields(i)[1])
                  /\ \A j \in C7_Read :
                        (j > i /\ C7_Accepted(j)) =>
                            C7_Clean(C7_Fields(j)[1]) # conditions[k].code
                  /\ conditions[k].description = C7_Clean(C7_Fields(i)[2])
                  /\ conditions[k].raf_score = C7_Weight(i)
        /\ Len(conditions) =
              Cardinality({C7_Clean(C7_Fields(i)[1]) : i \in {j \in C7_Read : C7_Accepted(j)}})
        /\ pc = "serving" => (line = Len(file.lines) + 1 /\ scorer = "Scorer")

C7_Witness ==
    /\ file = MixedRowsFile
    /\ pc = "serving"
    /\ Len(conditions) = 4
    /\ \E k \in 1..Len(conditions) :
          conditions[k].code = <<"A", "0", "6">> /\ conditions[k].raf_score = 10
    /\ ~C7_Accepted(4) /\ ~C7_Accepted(5) /\ C7_Accepted(8)

\* C8 as stated: the fixed category-code table the loader has used has
\* exactly 69 entries.
C8_MappingHas69Entries ==
    pc = "serving" => Cardinality(DOMAIN raf_mapping) = 69

\* C8 amended: the fixed category-code table is a closed constant with
\* exactly 64 entries.
C8_MappingHas64Entries ==
    pc = "serving" => Cardinality(DOMAIN raf_mapping) = 64

C8_Witness ==
    /\ pc = "serving"
    /\ \E k \in 1..Len(conditions) : conditions[k].raf_score = raf_mapping[36]

\* C9: the table is built once, before any request is handled, and no request
\* changes it: however the requests interleave, the table and the scorer stay
\* as built, and every score held by a client is the score of its request on
\* the table as it stands.
C9_TableImmutable ==
    /\ [][/\ pc = "serving" => (conditions' = conditions /\ scorer' = scorer /\ pc' = pc)
          /\ pc # "serving" => clients' = clients]_vars
    /\ [](\A c \in Clients : Scored(c) =>
            clients[c].response.score =
                calculate_medical_score(conditions, clients[c].request.conditions,
                                        clients[c].request.age))

C9_Witness ==
    /\ Scored(1) /\ Scored(2)
    /\ clients[1].request # clients[2].request
    /\ clients[1].call.matched # <<>>

\* the similarities of a name to the entries, in table order
RECURSIVE C10_Sims(_, _)
C10_Sims(name, i) ==
    IF i > Len(conditions) THEN <<>>
    ELSE <<_fuzzy_match_score(name, conditions[i].description)>> \o C10_Sims(name, i + 1)
\* similarity >= 0.75
C10_Eligible(sim) == sim[1] * 4 >= 3 * sim[2]
\* the number of eligible entries that come before entry i: a higher
\* similarity, or the same similarity and earlier in the table
C10_Rank(sims, i) ==
    Cardinality({j \in 1..Len(sims) :
        /\ C10_Eligible(sims[j])
        /\ \/ sims[j][1] * sims[i][2] > sims[i][1] * sims[j][2]
           \/ (sims[j][1] * sims[i][2] = sims[i][1] * sims[j][2] /\ j < i)})
\* the weights of the kept entries, the best first
C10_Weights(name) ==
    LET sims == C10_Sims(name, 1)
        kept == {i \in 1..Len(sims) : C10_Eligible(sims[i]) /\ C10_Rank(sims, i) < 5}
    IN  [k \in 1..Cardinality(kept) |->
            conditions[CHOOSE i \in kept : C10_Rank(sims, i) = k - 1].raf_score]
RECURSIVE C10_Concat(_, _)
C10_Concat(names, n) ==
    IF n > Len(names) THEN <<>>
    ELSE C10_Weights(names[n]) \o C10_Concat(names, n + 1)

\* C10: each name contributes the weights of the (at most) 5 entries of
\* highest similarity among those of similarity >= 0.75, equal similarities in
\* table order; the weights of all names are concatenated, duplicates kept.
C10_TopFivePerName ==
    \A c \in Clients : Scored(c) =>
        clients[c].call.matched = C10_Concat(clients[c].request.conditions, 1)

C10_Witness ==
    /\ Scored(1)
    /\ file = DiabetesFile
    /\ clients[1].request.conditions = <<NameDiabetes, NameDiabetes>>
    /\ Cardinality({i \in 1..Len(conditions) :
                        C10_Eligible(C10_Sims(NameDiabetes, 1)[i])}) = 7
    /\ clients[1].call.matched = <<40, 38, 35, 10, 28, 40, 38, 35, 10, 28>>

=============================================================================
